---------------------------- MODULE Spec2Model ----------------------------
(***************************************************************************)
(* A model of the shape detector (ShapeDetector.detectShapes, main.ts) and *)
(* of its scoring subsystem (evaluateDetection, evaluation-utils.ts;       *)
(* calculateScore, calculateGrade and the batch loops, evaluation.ts).     *)
(*                                                                         *)
(* JavaScript numbers are modelled exactly: a real-valued quantity is a    *)
(* normalised fraction <<n, d>> with d > 0.  The square root of            *)
(* calculateDistance is taken exactly, on inputs whose distance is a whole *)
(* number.                                                                 *)
(***************************************************************************)
EXTENDS Integers, Sequences, FiniteSets, TLC

VARIABLES
    \* evaluateDetection (evaluation-utils.ts)
    detected, groundTruth, di, matched, assign, truePositives, totalIoU,
    totalCenterDistance, totalAreaError, confidenceErrors, mpc, metrics,
    \* the matcher run at several IoU thresholds
    sweep,
    \* calculateScore (evaluation.ts)
    evaluation, processingTime, scored, spc,
    \* runSelectedEvaluation / runEvaluation (evaluation.ts)
    gtFile, groundTruthData, imageNames, bi, testResults, totals, overall, bpc,
    \* ShapeDetector.detectShapes (main.ts)
    imageData, shapesAreLight, binary, visited, scan, regions, shapes, result,
    dpc,
    \* ModalManager.showEvaluationModal (evaluation.ts)
    modals

vars == <<detected, groundTruth, di, matched, assign, truePositives, totalIoU,
          totalCenterDistance, totalAreaError, confidenceErrors, mpc, metrics,
          sweep, evaluation, processingTime, scored, spc,
          gtFile, groundTruthData, imageNames, bi, testResults, totals, overall,
          bpc, imageData, shapesAreLight, binary, visited, scan, regions, shapes,
          result, dpc, modals>>

---------------------------------------------------------------------------
(* Numbers *)

Abs(n) == IF n < 0 THEN -n ELSE n
Max2(a, b) == IF a >= b THEN a ELSE b
Min2(a, b) == IF a <= b THEN a ELSE b

RECURSIVE GCD(_, _)
GCD(a, b) == IF b = 0 THEN a ELSE GCD(b, a % b)

\* The fraction n/d (d > 0) in lowest terms.
Rat(n, d) == LET g == GCD(Abs(n), d) IN <<n \div g, d \div g>>
Zero == <<0, 1>>
One == <<1, 1>>
RInt(n) == <<n, 1>>
RAdd(a, b) == Rat(a[1] * b[2] + b[1] * a[2], a[2] * b[2])
RSub(a, b) == Rat(a[1] * b[2] - b[1] * a[2], a[2] * b[2])
RMul(a, b) == Rat(a[1] * b[1], a[2] * b[2])
\* a / b for b > 0
RDiv(a, b) == Rat(a[1] * b[2], a[2] * b[1])
RAbs(a) == <<Abs(a[1]), a[2]>>
RLt(a, b) == a[1] * b[2] < b[1] * a[2]
RLe(a, b) == a[1] * b[2] <= b[1] * a[2]

\* Math.sqrt on a perfect square.
ISqrt(n) == CHOOSE r \in 0..n : r * r = n

---------------------------------------------------------------------------
(* evaluation-utils.ts *)

Box(x, y, w, h) == [x |-> x, y |-> y, width |-> w, height |-> h]
Pt(x, y) == [x |-> x, y |-> y]

calculateIoUNoOverlapTerm(box1, box2) ==
    LET x1 == Max2(box1.x, box2.x)
        y1 == Max2(box1.y, box2.y)
        x2 == Min2(box1.x + box1.width, box2.x + box2.width)
        y2 == Min2(box1.y + box1.height, box2.y + box2.height)
        intersection == (x2 - x1) * (y2 - y1)
        union == box1.width * box1.height + box2.width * box2.height
    IN  IF x2 <= x1 \/ y2 <= y1 THEN Zero ELSE Rat(intersection, union)

calculateIoU(box1, box2) ==
    LET x1 == Max2(box1.x, box2.x)
        y1 == Max2(box1.y, box2.y)
        x2 == Min2(box1.x + box1.width, box2.x + box2.width)
        y2 == Min2(box1.y + box1.height, box2.y + box2.height)
        intersection == (x2 - x1) * (y2 - y1)
        union == box1.width * box1.height + box2.width * box2.height - intersection
    IN  IF x2 <= x1 \/ y2 <= y1 THEN Zero ELSE Rat(intersection, union)

calculateDistance(p1, p2) ==
    ISqrt((p2.x - p1.x) * (p2.x - p1.x) + (p2.y - p1.y) * (p2.y - p1.y))

iouThreshold == <<1, 2>>

\* The inner loop over the ground truth (lines 63-75) from index i on, for the
\* detection d: best is the running (bestIndex, bestIoU); index 0 stands for
\* "no match" (bestMatch = null).  A candidate without a bounding_box makes
\* calculateIoU read a property of undefined, which throws.
\* if (iou > bestIoU && iou > iouThreshold)
BetterCandidateOnTies(best, iou, thr) == RLe(best.iou, iou) /\ RLt(thr, iou)
BetterCandidateFirst(best, iou, thr) == best.index = 0 /\ RLt(thr, iou)
BetterCandidate(best, iou, thr) == RLt(best.iou, iou) /\ RLt(thr, iou)

\* if (matched.has(i)) continue;
IsSkippedNever(i, matchedSet) == FALSE
IsSkipped(i, matchedSet) == i \in matchedSet

RECURSIVE ScanGroundTruth(_, _, _, _, _, _)
ScanGroundTruth(d, gts, matchedSet, thr, i, best) ==
    IF i > Len(gts) \/ best.threw THEN best
    ELSE IF IsSkipped(i, matchedSet) THEN ScanGroundTruth(d, gts, matchedSet, thr, i + 1, best)
    ELSE IF d.type # gts[i].type THEN ScanGroundTruth(d, gts, matchedSet, thr, i + 1, best)
    ELSE IF gts[i].bounding_box = <<>> THEN [best EXCEPT !.threw = TRUE]
    ELSE LET iou == calculateIoU(d.boundingBox, gts[i].bounding_box[1])
         IN  ScanGroundTruth(d, gts, matchedSet, thr, i + 1,
                 IF BetterCandidate(best, iou, thr)
                 THEN [index |-> i, iou |-> iou, threw |-> FALSE]
                 ELSE best)

NoBest == [index |-> 0, iou |-> Zero, threw |-> FALSE]

\* The accumulators of evaluateDetection before the first detection (lines 50-56).
MatchStart ==
    [matched |-> {}, assign |-> <<>>, truePositives |-> 0, totalIoU |-> Zero,
     totalCenterDistance |-> 0, totalAreaError |-> Zero,
     confidenceErrors |-> Zero, threw |-> FALSE]

\* One iteration of the loop over the detections (lines 58-97).
MatchDetection(st, d, gts, thr) ==
    LET best == ScanGroundTruth(d, gts, st.matched, thr, 1, NoBest)
        g == gts[best.index]
    IN  IF best.threw THEN [st EXCEPT !.threw = TRUE]
        ELSE IF best.index = 0 THEN [st EXCEPT !.assign = Append(@, 0)]
        ELSE [matched |-> st.matched \cup {best.index},
              assign |-> Append(st.assign, best.index),
              truePositives |-> st.truePositives + 1,
              totalIoU |-> RAdd(st.totalIoU, best.iou),
              totalCenterDistance |->
                  IF g.center # <<>>
                  THEN st.totalCenterDistance + calculateDistance(d.center, g.center[1])
                  ELSE st.totalCenterDistance,
              totalAreaError |->
                  IF g.area # 0 /\ d.area # 0
                  THEN RAdd(st.totalAreaError, Rat(Abs(d.area - g.area), g.area))
                  ELSE st.totalAreaError,
              confidenceErrors |->
                  IF g.confidence_expected # Zero /\ d.confidence # Zero
                  THEN RAdd(st.confidenceErrors,
                            RAbs(RSub(d.confidence, g.confidence_expected)))
                  ELSE st.confidenceErrors,
              threw |-> FALSE]

RECURSIVE MatchFrom(_, _, _, _, _)
MatchFrom(st, dets, gts, thr, k) ==
    IF k > Len(dets) \/ st.threw THEN st
    ELSE MatchFrom(MatchDetection(st, dets[k], gts, thr), dets, gts, thr, k + 1)

\* const recall = groundTruth.length > 0 ? truePositives / groundTruth.length : 1;
RecallOfEmptyZero(tp, nGT) == IF nGT > 0 THEN Rat(tp, nGT) ELSE Zero
Recall(tp, nGT) == IF nGT > 0 THEN Rat(tp, nGT) ELSE One

MetricsAreaOfNone(st, nDet, nGT) ==
    LET tp == st.truePositives
        precision == IF nDet > 0 THEN Rat(tp, nDet) ELSE Zero
        recall == Recall(tp, nGT)
        sum == RAdd(precision, recall)
    IN  [precision |-> precision,
         recall |-> recall,
         f1_score |-> IF RLt(Zero, sum)
                      THEN RDiv(RMul(RInt(2), RMul(precision, recall)), sum)
                      ELSE Zero,
         average_iou |-> IF tp > 0 THEN RDiv(st.totalIoU, RInt(tp)) ELSE Zero,
         center_point_accuracy |->
             IF tp > 0 THEN Rat(st.totalCenterDistance, tp) ELSE Zero,
         area_accuracy |->
             IF tp > 0 THEN RSub(One, RDiv(st.totalAreaError, RInt(tp))) ELSE One,
         confidence_calibration |->
             IF tp > 0 THEN RSub(One, RDiv(st.confidenceErrors, RInt(tp))) ELSE Zero,
         processing_time |-> 0]

\* The returned EvaluationMetrics (lines 99-112).
Metrics(st, nDet, nGT) ==
    LET tp == st.truePositives
        precision == IF nDet > 0 THEN Rat(tp, nDet) ELSE Zero
        recall == Recall(tp, nGT)
        sum == RAdd(precision, recall)
    IN  [precision |-> precision,
         recall |-> recall,
         f1_score |-> IF RLt(Zero, sum)
                      THEN RDiv(RMul(RInt(2), RMul(precision, recall)), sum)
                      ELSE Zero,
         average_iou |-> IF tp > 0 THEN RDiv(st.totalIoU, RInt(tp)) ELSE Zero,
         center_point_accuracy |->
             IF tp > 0 THEN Rat(st.totalCenterDistance, tp) ELSE Zero,
         area_accuracy |->
             IF tp > 0 THEN RSub(One, RDiv(st.totalAreaError, RInt(tp))) ELSE Zero,
         confidence_calibration |->
             IF tp > 0 THEN RSub(One, RDiv(st.confidenceErrors, RInt(tp))) ELSE Zero,
         processing_time |-> 0]

\* evaluateDetection as a function: <<metrics>>, or <<>> when it throws.
evaluateDetection(dets, gts) ==
    LET st == MatchFrom(MatchStart, dets, gts, iouThreshold, 1)
    IN  IF st.threw THEN <<>> ELSE <<Metrics(st, Len(dets), Len(gts))>>

\* The number of true positives the matcher finds at threshold thr.
TruePositivesAt(dets, gts, thr) == MatchFrom(MatchStart, dets, gts, thr, 1).truePositives

---------------------------------------------------------------------------
(* evaluation.ts: calculateScore and calculateGrade *)

\* The five bands of calculateScore (lines 270-338).
F1Points(f1) ==
    IF RLe(<<9, 10>>, f1) THEN 40
    ELSE IF RLe(<<7, 10>>, f1) THEN 30
    ELSE IF RLe(<<1, 2>>, f1) THEN 20
    ELSE 0

IoUPoints(avgIoU) ==
    IF RLe(<<4, 5>>, avgIoU) THEN 25
    ELSE IF RLe(<<3, 5>>, avgIoU) THEN 20
    ELSE IF RLe(<<2, 5>>, avgIoU) THEN 10
    ELSE 0

IoULabel(avgIoU) ==
    IF RLe(<<4, 5>>, avgIoU) THEN "Excellent localization"
    ELSE IF RLe(<<3, 5>>, avgIoU) THEN "Good localization"
    ELSE IF RLe(<<2, 5>>, avgIoU) THEN "Fair localization"
    ELSE "Poor localization"

CenterPointsStrict(centerAcc) ==
    IF RLt(centerAcc, RInt(5)) THEN 15
    ELSE IF RLt(centerAcc, RInt(10)) THEN 12
    ELSE IF RLt(centerAcc, RInt(20)) THEN 8
    ELSE 0

CenterPoints(centerAcc) ==
    IF RLe(centerAcc, RInt(5)) THEN 15
    ELSE IF RLe(centerAcc, RInt(10)) THEN 12
    ELSE IF RLe(centerAcc, RInt(20)) THEN 8
    ELSE 0

AreaPoints(areaAcc) ==
    IF RLe(<<9, 10>>, areaAcc) THEN 10
    ELSE IF RLe(<<4, 5>>, areaAcc) THEN 8
    ELSE IF RLe(<<7, 10>>, areaAcc) THEN 5
    ELSE 0

TimePoints(ms) ==
    IF ms <= 500 THEN 10
    ELSE IF ms <= 1000 THEN 8
    ELSE IF ms <= 2000 THEN 5
    ELSE 0

PassedStrict(score) == score > 60
Passed(score) == score >= 60

\* calculateScore(evaluation, detection); ms is detection.processingTime.
calculateScore(ev, ms) ==
    LET score == F1Points(ev.f1_score) + IoUPoints(ev.average_iou)
                 + CenterPoints(ev.center_point_accuracy)
                 + AreaPoints(ev.area_accuracy) + TimePoints(ms)
    IN  [passed |-> Passed(score),
         feedback |-> <<"detection accuracy", IoULabel(ev.average_iou),
                        "center accuracy", "area calculation", "performance">>,
         score |-> score]

\* calculateGrade(percentage), the percentage being 100 * total / max; with no
\* test at all the percentage is 0/0 = NaN, which compares false throughout.
calculateGrade(total, max) ==
    IF max = 0 THEN "F"
    ELSE IF 100 * total >= 90 * max THEN "A"
    ELSE IF 100 * total >= 80 * max THEN "B"
    ELSE IF 100 * total >= 70 * max THEN "C"
    ELSE IF 100 * total >= 60 * max THEN "D"
    ELSE "F"

ScoreIdle == evaluation = <<>> /\ processingTime = 0 /\ scored = <<>> /\ spc = "idle"
ScoreVars == <<evaluation, processingTime, scored, spc>>

BatchIdle ==
    /\ gtFile = "ok" /\ groundTruthData = <<>> /\ imageNames = <<>> /\ bi = 0
    /\ testResults = <<>> /\ totals = <<>> /\ overall = <<>> /\ bpc = "idle"
BatchVars ==
    <<gtFile, groundTruthData, imageNames, bi, testResults, totals, overall, bpc>>

ModalIdle == modals = <<>>
ModalVars == <<modals>>

DetectIdle ==
    /\ imageData = <<>> /\ shapesAreLight = FALSE /\ binary = {} /\ visited = {}
    /\ scan = 0 /\ regions = <<>> /\ shapes = <<>> /\ result = <<>> /\ dpc = "idle"
DetectVars ==
    <<imageData, shapesAreLight, binary, visited, scan, regions, shapes, result,
      dpc>>

---------------------------------------------------------------------------
(* main.ts: ShapeDetector.detectShapes *)

\* An ImageData is written by what it shows: a background colour and filled
\* axis-aligned rectangles and discs painted over it in order; a pixel is the
\* index y * width + x.  Colours are <<r, g, b>>.
Black == <<0, 0, 0>>
White == <<255, 255, 255>>
Red == <<255, 0, 0>>

Picture(w, h, bg, rects) == [width |-> w, height |-> h, bg |-> bg, rects |-> rects]
Filled(x, y, w, h, colour) == [x |-> x, y |-> y, w |-> w, h |-> h, colour |-> colour]

\* The digital disc of radius r about (cx, cy): the pixels (x, y) with
\* (x - cx)^2 + (y - cy)^2 <= r^2.
Disc(cx, cy, r, colour) ==
    [x |-> cx - r, y |-> cy - r, w |-> 2 * r + 1, h |-> 2 * r + 1, colour |-> colour,
     r |-> r]

Grey(v) == <<v, v, v>>

Covers(f, x, y) ==
    IF "r" \in DOMAIN f
    THEN (x - f.x - f.r) * (x - f.x - f.r) + (y - f.y - f.r) * (y - f.y - f.r)
            <= f.r * f.r
    ELSE f.x <= x /\ x < f.x + f.w /\ f.y <= y /\ y < f.y + f.h

RECURSIVE ColourFrom(_, _, _, _)
ColourFrom(img, x, y, k) ==
    IF k = 0 THEN img.bg
    ELSE LET r == img.rects[k]
         IN  IF Covers(r, x, y)
             THEN r.colour
             ELSE ColourFrom(img, x, y, k - 1)

\* data[4i], data[4i + 1], data[4i + 2]
ColourAt(img, i) == ColourFrom(img, i % img.width, i \div img.width, Len(img.rects))

\* gray[i / 4] = 0.299 * r + 0.587 * g + 0.114 * b, stored in a
\* Uint8ClampedArray: rounded to the nearest integer, halves to the even one.
Gray(c) ==
    LET v == 299 * c[1] + 587 * c[2] + 114 * c[3]
        f == v \div 1000
        m == v % 1000
    IN  IF m > 500 \/ (m = 500 /\ f % 2 = 1) THEN f + 1 ELSE f

Pixels(img) == 0..(img.width * img.height - 1)

\* sum of gray[i] over the pixels (line 66), added up per gray level.
RECURSIVE SumLevels(_, _)
SumLevels(gray, levels) ==
    IF levels = {} THEN 0
    ELSE LET v == CHOOSE l \in levels : TRUE
         IN  v * Cardinality({ i \in DOMAIN gray : gray[i] = v })
             + SumLevels(gray, levels \ {v})

BinarizedAtOrBelow(img) ==
    LET gray == [i \in Pixels(img) |-> Gray(ColourAt(img, i))]
        n == img.width * img.height
        sum == SumLevels(gray, { gray[i] : i \in Pixels(img) })
        darkPixels == Cardinality({ i \in Pixels(img) : gray[i] * n < sum })
        light == n - darkPixels < darkPixels
    IN  [shapesAreLight |-> light,
         binary |-> IF light THEN { i \in Pixels(img) : gray[i] * n >= sum }
                    ELSE { i \in Pixels(img) : gray[i] * n <= sum }]

\* Steps 1 and 2 (lines 57-82).  gray[i] < avg is gray[i] * n < sum; on an
\* empty array avg is 0/0 = NaN and no loop runs.
Binarized(img) ==
    LET gray == [i \in Pixels(img) |-> Gray(ColourAt(img, i))]
        n == img.width * img.height
        sum == SumLevels(gray, { gray[i] : i \in Pixels(img) })
        darkPixels == Cardinality({ i \in Pixels(img) : gray[i] * n < sum })
        lightPixels == n - darkPixels
        light == lightPixels < darkPixels
    IN  [shapesAreLight |-> light,
         binary |-> IF light THEN { i \in Pixels(img) : gray[i] * n > sum }
                    ELSE { i \in Pixels(img) : gray[i] * n < sum }]

dirsAxisOnly == << <<1, 0>>, <<-1, 0>>, <<0, 1>>, <<0, -1>>,
                   <<0, 0>>, <<0, 0>>, <<0, 0>>, <<0, 0>> >>

dirs == << <<1, 0>>, <<-1, 0>>, <<0, 1>>, <<0, -1>>,
           <<1, 1>>, <<1, -1>>, <<-1, 1>>, <<-1, -1>> >>

\* The k-th neighbour of pixel p, or -1 when it is outside the image.
Neighbour(img, p, k) ==
    LET nx == (p % img.width) + dirs[k][1]
        ny == (p \div img.width) + dirs[k][2]
    IN  IF nx < 0 \/ ny < 0 \/ nx >= img.width \/ ny >= img.height THEN -1
        ELSE ny * img.width + nx

\* One iteration of `while (q.length)` (lines 102-115); nothing when q is empty.
FloodStep(img, bin, st) ==
    IF st.q = <<>> THEN st
    ELSE LET c == st.q[Len(st.q)]
             pushed == SelectSeq([k \in 1..8 |-> Neighbour(img, c, k)],
                                 LAMBDA nb : nb >= 0 /\ nb \in bin /\ nb \notin st.visited)
         IN  [q |-> SubSeq(st.q, 1, Len(st.q) - 1) \o pushed,
              visited |-> st.visited \cup { pushed[k] : k \in 1..Len(pushed) },
              pixels |-> Append(st.pixels, c)]

\* n iterations of the loop.
RECURSIVE FloodSteps(_, _, _, _)
FloodSteps(img, bin, st, n) ==
    IF n = 0 \/ st.q = <<>> THEN st
    ELSE IF n = 1 THEN FloodStep(img, bin, st)
    ELSE FloodSteps(img, bin, FloodSteps(img, bin, st, n \div 2), n - n \div 2)

\* The flood fill from a seed (lines 98-115): the loop pops one pixel per
\* iteration and no pixel is pushed twice, so it ends within width * height
\* iterations.
FloodFill(img, bin, vis, seed) ==
    FloodSteps(img, bin, [q |-> <<seed>>, visited |-> vis \cup {seed}, pixels |-> <<>>],
               img.width * img.height)

SetMin(S) == CHOOSE m \in S : \A e \in S : m <= e
SetMax(S) == CHOOSE m \in S : \A e \in S : m >= e

\* A region pixel with a background neighbour inside the image (lines 131-139
\* and 144-151).
IsEdge(img, bin, p) ==
    \E k \in 1..8 : Neighbour(img, p, k) >= 0 /\ Neighbour(img, p, k) \notin bin

\* The angle test of the corner estimate (lines 155-164).  The cosine is
\* dot / (mag + 1e-6), a little smaller in size than the true cosine, so the
\* angle lies strictly between 45 and 135 degrees exactly when
\* 2 * dot^2 <= |v1|^2 * |v2|^2: an angle of exactly 45 or 135 degrees counts,
\* and with a zero vector the cosine is 0 / 1e-6 = 0.
IsCorner(img, p1, p2, p3) ==
    LET v1x == (p2 % img.width) - (p1 % img.width)
        v1y == (p2 \div img.width) - (p1 \div img.width)
        v2x == (p3 % img.width) - (p2 % img.width)
        v2y == (p3 \div img.width) - (p2 \div img.width)
        dot == v1x * v2x + v1y * v2y
    IN  2 * dot * dot <= (v1x * v1x + v1y * v1y) * (v2x * v2x + v2y * v2y)

RECURSIVE CountCorners(_, _, _, _)
CountCorners(img, boundary, i, step) ==
    IF i >= Len(boundary) THEN 0
    ELSE (IF IsCorner(img, boundary[i + 1],
                      boundary[((i + 1) % Len(boundary)) + 1],
                      boundary[((i + 2) % Len(boundary)) + 1])
          THEN 1 ELSE 0)
         + CountCorners(img, boundary, i + step, step)

\* circularity = (4 * Math.PI * area) / (perimeter * perimeter + 1e-6), with
\* Math.PI taken as 355/113 and the 1e-6 left out (a region has a boundary
\* pixel, so perimeter >= 1).
Circularity(area, perimeter) == Rat(4 * 355 * area, 113 * perimeter * perimeter)

\* Steps 4 and 5 (lines 119-171) for the pixels of one region.
Features(img, bin, pixels) ==
    LET xs == { pixels[k] % img.width : k \in 1..Len(pixels) }
        ys == { pixels[k] \div img.width : k \in 1..Len(pixels) }
        boundary == SelectSeq(pixels, LAMBDA p : IsEdge(img, bin, p))
    IN  [area |-> Len(pixels),
         bbox |-> Box(SetMin(xs), SetMin(ys), SetMax(xs) - SetMin(xs),
                      SetMax(ys) - SetMin(ys)),
         center |-> [x |-> Rat(SetMin(xs) + SetMax(xs), 2),
                     y |-> Rat(SetMin(ys) + SetMax(ys), 2)],
         perimeter |-> Len(boundary),
         circularity |-> Circularity(Len(pixels), Len(boundary)),
         corners |-> CountCorners(img, boundary, 0, (Len(boundary) \div 20) + 1)]

\* Step 6 (lines 168-176): the region is dropped.  fillRatio = area /
\* (bboxArea + 1e-6) is below 0.2 exactly when 5 * area <= bboxArea and the box
\* is not empty.
Rejected(f) ==
    \/ f.area < 300
    \/ (f.bbox.width * f.bbox.height > 0 /\ 5 * f.area <= f.bbox.width * f.bbox.height)
    \/ Max2(f.bbox.width, f.bbox.height) > 4 * Max2(1, Min2(f.bbox.width, f.bbox.height))
    \/ 2 * f.perimeter > f.area + 1

ClassifiedCornersFirst(f) ==
    LET tc == IF f.corners <= 4 THEN <<"triangle", <<9, 10>> >>
              ELSE IF f.corners <= 6 THEN <<"pentagon", <<17, 20>> >>
              ELSE IF RLt(<<3, 4>>, f.circularity) THEN <<"circle", f.circularity>>
              ELSE IF f.bbox.height > 0 /\ 5 * f.bbox.width < 6 * f.bbox.height
                      /\ RLt(f.circularity, <<2, 5>>)
                   THEN <<"star", <<4, 5>> >>
              ELSE <<"rectangle", <<4, 5>> >>
    IN  [type |-> tc[1], confidence |-> tc[2], boundingBox |-> f.bbox,
         center |-> f.center, area |-> f.area]

\* Step 7 (lines 179-202).  ratio = width / height is Infinity or NaN for
\* height 0 and then not below 1.2.
Classified(f) ==
    LET tc == IF RLt(<<3, 4>>, f.circularity) THEN <<"circle", f.circularity>>
              ELSE IF f.corners <= 4 THEN <<"triangle", <<9, 10>> >>
              ELSE IF f.corners <= 6 THEN <<"pentagon", <<17, 20>> >>
              ELSE IF f.bbox.height > 0 /\ 5 * f.bbox.width < 6 * f.bbox.height
                      /\ RLt(f.circularity, <<2, 5>>)
                   THEN <<"star", <<4, 5>> >>
              ELSE <<"rectangle", <<4, 5>> >>
    IN  [type |-> tc[1], confidence |-> tc[2], boundingBox |-> f.bbox,
         center |-> f.center, area |-> f.area]

\* The body of the scan loop for one seed (lines 98-202): the new visited set,
\* the region (its pixels and, unless it is tiny, its measures) and the shapes
\* after it.
RegionScanned(img, bin, vis, seed, found) ==
    LET filled == FloodFill(img, bin, vis, seed)
        f == Features(img, bin, filled.pixels)
    IN  [visited |-> filled.visited,
         region |-> [pixels |-> filled.pixels,
                     measured |-> IF Len(filled.pixels) < 40 THEN <<>> ELSE <<f>>],
         shapes |-> IF Len(filled.pixels) < 40 THEN found
                    ELSE IF Rejected(f) THEN found
                    ELSE Append(found, Classified(f))]

---------------------------------------------------------------------------
(* Inputs of the matcher *)

MaxDetected == 2
MaxGroundTruth == 2

bA == Box(0, 0, 40, 40)
bB == Box(0, 0, 40, 30)
bC == Box(0, 0, 40, 20)
bD == Box(10, 0, 40, 40)
bE == Box(0, 10, 40, 40)

Det(t, b, c, a, conf) ==
    [type |-> t, boundingBox |-> b, center |-> c, area |-> a, confidence |-> conf]
GT(t, b, c, a, conf) ==
    [type |-> t, bounding_box |-> b, center |-> c, area |-> a,
     confidence_expected |-> conf]

DetectedPool ==
    { Det("circle", bA, Pt(20, 20), 1300, <<4, 5>>),
      Det("circle", bB, Pt(20, 15), 1000, <<9, 10>>),
      Det("circle", bD, Pt(30, 20), 1300, <<4, 5>>),
      Det("circle", bC, Pt(20, 10), 700, <<4, 5>>),
      Det("rectangle", bA, Pt(20, 20), 1600, <<4, 5>>) }

GroundTruthPool ==
    { GT("circle", <<bA>>, <<Pt(20, 20)>>, 1300, <<9, 10>>),
      GT("circle", <<bD>>, <<Pt(20, -4)>>, 1000, Zero),
      GT("circle", <<bE>>, <<>>, 0, Zero),
      GT("circle", <<bB>>, <<Pt(20, 44)>>, 1250, <<4, 5>>),
      GT("rectangle", <<bA>>, <<Pt(20, 44)>>, 1600, <<4, 5>>),
      GT("circle", <<>>, <<Pt(20, 20)>>, 1300, Zero) }

SeqsUpTo(S, n) == UNION { [1..k -> S] : k \in 0..n }

---------------------------------------------------------------------------
(* evaluation.ts: runSelectedEvaluation and runEvaluation *)

MaxBatch == 3

\* The world of one test image: whether its source can be fetched and decoded,
\* what detectShapes returns for it (shapes, processingTime in ms), and its
\* entry in ground_truth.json (<<>>: no entry, <<shapes>>: an entry).
Image(name, readable, found, ms, gt) ==
    [name |-> name, readable |-> readable, shapes |-> found, ms |-> ms, gt |-> gt]

circleA == Det("circle", bA, Pt(20, 20), 1300, <<4, 5>>)

ImagePool ==
    { Image("circle.png", TRUE, <<circleA>>, 12,
            << <<GT("circle", <<bA>>, <<Pt(20, 20)>>, 1300, <<9, 10>>)>> >>),
      Image("circle_slow.png", TRUE, <<circleA>>, 600,
            << <<GT("circle", <<bA>>, <<>>, 0, Zero)>> >>),
      Image("circle_area_off.png", TRUE, <<circleA>>, 2500,
            << <<GT("circle", <<bA>>, <<Pt(20, 44)>>, 1000, Zero)>> >>),
      Image("two_circles.png", TRUE,
            <<circleA, Det("circle", bD, Pt(30, 20), 1300, <<4, 5>>)>>, 20,
            << <<GT("circle", <<bD>>, <<Pt(20, -4)>>, 1000, Zero),
                 GT("circle", <<bB>>, <<Pt(20, 44)>>, 1250, <<4, 5>>)>> >>),
      Image("not_annotated.png", TRUE, <<circleA>>, 15, <<>>),
      Image("negative.png", TRUE, <<>>, 8, <<>>),
      Image("broken.svg", FALSE, <<>>, 0, <<>>),
      Image("no_box.png", TRUE, <<circleA>>, 15,
            << <<GT("circle", <<>>, <<Pt(20, 20)>>, 1300, Zero)>> >>),
      Image("wrong_type.png", TRUE, <<Det("rectangle", bA, Pt(20, 20), 1600, <<4, 5>>)>>,
            700, << <<GT("circle", <<bA>>, <<Pt(20, 20)>>, 1300, Zero)>> >>),
      Image("missed.png", TRUE, <<>>, 1500,
            << <<GT("circle", <<bA>>, <<Pt(20, 20)>>, 1300, Zero)>> >>),
      Image("half_overlap.png", TRUE, <<circleA>>, 2500,
            << <<GT("circle", <<bC>>, <<Pt(20, 10)>>, 700, Zero)>> >>) }

ImageNames == { w.name : w \in ImagePool }
World(name) == CHOOSE w \in ImagePool : w.name = name

\* getAllTestImageNames(): every test image, in a fixed order.
AllImageNames ==
    <<"circle.png", "circle_slow.png", "circle_area_off.png", "two_circles.png",
      "not_annotated.png", "negative.png", "broken.svg", "no_box.png",
      "wrong_type.png", "missed.png", "half_overlap.png">>

\* The selected image names: Array.from of a Set, so without repetition.
Selections ==
    { q \in SeqsUpTo(ImageNames, MaxBatch) :
        \A a, b \in 1..Len(q) : a # b => q[a] # q[b] }

\* const gtShapes = groundTruth.images[imageName]?.shapes || [];
\* <<shapes>>, or <<>> when the expression throws (no `images` table).
GtShapesStrict(data, name) ==
    IF data = "no_images" \/ World(name).gt = <<>> THEN <<>> ELSE <<World(name).gt[1]>>
GtShapes(data, name) ==
    IF data = "no_images" THEN <<>>
    ELSE IF World(name).gt = <<>> THEN << <<>> >>
    ELSE <<World(name).gt[1]>>

\* The body of the try block for one image (lines 63-102): <<TestResult,
\* score>>, or <<>> when a step of it throws.
TryImage(data, name) ==
    LET w == World(name)
        gtShapes == GtShapes(data, name)
        ev == evaluateDetection(w.shapes, gtShapes[1])
        evaluated == [ev[1] EXCEPT !.processing_time = w.ms]
        out == calculateScore(evaluated, w.ms)
    IN  IF ~w.readable THEN <<>>
        ELSE IF gtShapes = <<>> THEN <<>>
        ELSE IF ev = <<>> THEN <<>>
        ELSE <<[imageName |-> name,
                detectionResult |-> [shapes |-> w.shapes, processingTime |-> w.ms],
                evaluation |-> evaluated,
                passed |-> out.passed,
                feedback |-> out.feedback],
               out.score>>

ZeroMetrics ==
    [precision |-> Zero, recall |-> Zero, f1_score |-> Zero, average_iou |-> Zero,
     center_point_accuracy |-> Zero, area_accuracy |-> Zero,
     confidence_calibration |-> Zero, processing_time |-> 0]

\* The TestResult pushed by the catch block (lines 103-125).
ErrorResult(name) ==
    [imageName |-> name,
     detectionResult |-> [shapes |-> <<>>, processingTime |-> 0],
     evaluation |-> ZeroMetrics,
     passed |-> FALSE,
     feedback |-> <<"Error during testing">>]

NoTotals ==
    [totalPrecision |-> Zero, totalRecall |-> Zero, totalF1 |-> Zero,
     totalIoU |-> Zero, totalProcessingTime |-> 0, totalScore |-> 0]

\* Math.round(percentage * 100) / 100 of percentage = total / max * 100.
RoundedPercentage(total, max) == Rat((2 * total * 10000 + max) \div (2 * max), 100)

\* The OverallResults built after the loop (lines 129-146); with no test the
\* percentage and the averages are 0/0 = NaN, written <<>>.
Overall(results, t) ==
    LET numTests == Len(results)
        maxScore == numTests * 100
        avg(x) == IF numTests = 0 THEN <<>> ELSE <<RDiv(x, RInt(numTests))>>
    IN  [totalScore |-> t.totalScore,
         maxScore |-> maxScore,
         percentage |-> IF numTests = 0 THEN <<>>
                        ELSE <<RoundedPercentage(t.totalScore, maxScore)>>,
         grade |-> calculateGrade(t.totalScore, maxScore),
         testResults |-> results,
         summary |-> [averagePrecision |-> avg(t.totalPrecision),
                      averageRecall |-> avg(t.totalRecall),
                      averageF1 |-> avg(t.totalF1),
                      averageIoU |-> avg(t.totalIoU),
                      totalProcessingTime |-> t.totalProcessingTime]]

---------------------------------------------------------------------------
(* evaluateDetection, one detection at a time *)

MatchState ==
    [matched |-> matched, assign |-> assign, truePositives |-> truePositives,
     totalIoU |-> totalIoU, totalCenterDistance |-> totalCenterDistance,
     totalAreaError |-> totalAreaError, confidenceErrors |-> confidenceErrors,
     threw |-> FALSE]

InitMatch ==
    /\ detected \in SeqsUpTo(DetectedPool, MaxDetected)
    /\ groundTruth \in SeqsUpTo(GroundTruthPool, MaxGroundTruth)
    /\ di = 0 /\ matched = {} /\ assign = <<>> /\ truePositives = 0
    /\ totalIoU = Zero /\ totalCenterDistance = 0 /\ totalAreaError = Zero
    /\ confidenceErrors = Zero /\ mpc = "loop" /\ metrics = <<>>
    /\ sweep = <<>>
    /\ ScoreIdle /\ BatchIdle /\ DetectIdle /\ ModalIdle

\* for (const detectedShape of detected) { ... }
MatchNext ==
    /\ mpc = "loop" /\ di < Len(detected)
    /\ LET st == MatchDetection(MatchState, detected[di + 1], groundTruth, iouThreshold)
       IN  /\ matched' = st.matched
           /\ assign' = st.assign
           /\ truePositives' = st.truePositives
           /\ totalIoU' = st.totalIoU
           /\ totalCenterDistance' = st.totalCenterDistance
           /\ totalAreaError' = st.totalAreaError
           /\ confidenceErrors' = st.confidenceErrors
           /\ mpc' = IF st.threw THEN "threw" ELSE "loop"
           /\ di' = IF st.threw THEN di ELSE di + 1
    /\ UNCHANGED <<detected, groundTruth, metrics, sweep>>
    /\ UNCHANGED <<ScoreVars, BatchVars, DetectVars, ModalVars>>

\* return { precision, recall, ... }
MatchReturn ==
    /\ mpc = "loop" /\ di = Len(detected)
    /\ metrics' = <<Metrics(MatchState, Len(detected), Len(groundTruth))>>
    /\ mpc' = "done"
    /\ UNCHANGED <<detected, groundTruth, di, matched, assign, truePositives,
                   totalIoU, totalCenterDistance, totalAreaError,
                   confidenceErrors, sweep>>
    /\ UNCHANGED <<ScoreVars, BatchVars, DetectVars, ModalVars>>

NextMatch == MatchNext \/ MatchReturn

SpecMatch == InitMatch /\ [][NextMatch]_vars

---------------------------------------------------------------------------
(* The matcher of evaluateDetection run at several IoU thresholds *)

Thresholds == { <<1, 4>>, <<1, 2>>, <<3, 5>>, <<3, 4>> }

InitSweep ==
    /\ detected \in SeqsUpTo(DetectedPool, MaxDetected)
    /\ groundTruth \in SeqsUpTo(GroundTruthPool, MaxGroundTruth)
    /\ di = 0 /\ matched = {} /\ assign = <<>> /\ truePositives = 0
    /\ totalIoU = Zero /\ totalCenterDistance = 0 /\ totalAreaError = Zero
    /\ confidenceErrors = Zero /\ mpc = "sweep" /\ metrics = <<>>
    /\ sweep = <<>>
    /\ ScoreIdle /\ BatchIdle /\ DetectIdle /\ ModalIdle

RunSweep ==
    /\ mpc = "sweep"
    /\ sweep' = [t \in Thresholds |->
                    LET st == MatchFrom(MatchStart, detected, groundTruth, t, 1)
                    IN  [tp |-> st.truePositives, threw |-> st.threw]]
    /\ mpc' = "swept"
    /\ UNCHANGED <<detected, groundTruth, di, matched, assign, truePositives,
                   totalIoU, totalCenterDistance, totalAreaError,
                   confidenceErrors, metrics>>
    /\ UNCHANGED <<ScoreVars, BatchVars, DetectVars, ModalVars>>

NextSweep == RunSweep

SpecSweep == InitSweep /\ [][NextSweep]_vars

---------------------------------------------------------------------------
(* calculateScore on a grid of EvaluationMetrics around the cut-offs *)

F1Grid == { Zero, <<49, 100>>, <<1, 2>>, <<7, 10>>, <<89, 100>>, <<9, 10>>, One }
IoUGrid == { Zero, <<2, 5>>, <<59, 100>>, <<3, 5>>, <<4, 5>>, One }
CenterGrid == { Zero, RInt(5), <<11, 2>>, RInt(10), RInt(20), <<201, 10>> }
AreaGrid == { <<-1, 2>>, Zero, <<7, 10>>, <<4, 5>>, <<89, 100>>, <<9, 10>>, One }
TimeGrid == { 0, 500, 501, 1000, 2000, 2001 }

MatchIdle ==
    /\ detected = <<>> /\ groundTruth = <<>> /\ di = 0 /\ matched = {}
    /\ assign = <<>> /\ truePositives = 0 /\ totalIoU = Zero
    /\ totalCenterDistance = 0 /\ totalAreaError = Zero
    /\ confidenceErrors = Zero /\ mpc = "idle" /\ metrics = <<>>
    /\ sweep = <<>>

MatchVars ==
    <<detected, groundTruth, di, matched, assign, truePositives, totalIoU,
      totalCenterDistance, totalAreaError, confidenceErrors, mpc, metrics, sweep>>

InitScore ==
    /\ \E f \in F1Grid, i \in IoUGrid, c \in CenterGrid, a \in AreaGrid :
          evaluation = <<[precision |-> f, recall |-> f, f1_score |-> f,
                          average_iou |-> i, center_point_accuracy |-> c,
                          area_accuracy |-> a, confidence_calibration |-> Zero,
                          processing_time |-> 0]>>
    /\ processingTime \in TimeGrid
    /\ scored = <<>> /\ spc = "call"
    /\ MatchIdle /\ BatchIdle /\ DetectIdle /\ ModalIdle

CalculateScore ==
    /\ spc = "call"
    /\ scored' = <<calculateScore(evaluation[1], processingTime)>>
    /\ spc' = "returned"
    /\ UNCHANGED <<evaluation, processingTime>>
    /\ UNCHANGED <<MatchVars, BatchVars, DetectVars, ModalVars>>

NextScore == CalculateScore

SpecScore == InitScore /\ [][NextScore]_vars

---------------------------------------------------------------------------
(* A batch evaluation *)

\* runSelectedEvaluation(detector, selectedImageNames) is entered with any
\* selection, runEvaluation(detector) with every test image; ground_truth.json
\* can be fetched and holds an `images` table, can be fetched and holds none,
\* or cannot be fetched or parsed.
InitBatch ==
    /\ gtFile \in {"ok", "no_images", "unavailable"}
    /\ groundTruthData = <<>>
    /\ imageNames \in Selections \cup {AllImageNames}
    /\ bi = 0 /\ testResults = <<>> /\ totals = NoTotals /\ overall = <<>>
    /\ bpc = "load"
    /\ MatchIdle /\ ScoreIdle /\ DetectIdle /\ ModalIdle

\* const groundTruth = await loadGroundTruth();
LoadGroundTruth ==
    /\ bpc = "load" /\ gtFile # "unavailable"
    /\ groundTruthData' = <<gtFile>>
    /\ bpc' = "loop"
    /\ UNCHANGED <<gtFile, imageNames, bi, testResults, totals, overall>>
    /\ UNCHANGED <<MatchVars, ScoreVars, DetectVars, ModalVars>>

\* loadGroundTruth rethrows a failed fetch or parse: the batch function rejects
\* before its loop.
LoadGroundTruthFails ==
    /\ bpc = "load" /\ gtFile = "unavailable"
    /\ bpc' = "threw"
    /\ UNCHANGED <<gtFile, groundTruthData, imageNames, bi, testResults, totals,
                   overall>>
    /\ UNCHANGED <<MatchVars, ScoreVars, DetectVars, ModalVars>>

\* One iteration whose try block completes.
ProcessImage ==
    /\ bpc = "loop" /\ bi < Len(imageNames)
    /\ \E r \in {TryImage(groundTruthData[1], imageNames[bi + 1])} :
           /\ r # <<>>
           /\ testResults' = Append(testResults, r[1])
           /\ totals' =
                 [totalPrecision |-> RAdd(totals.totalPrecision, r[1].evaluation.precision),
                  totalRecall |-> RAdd(totals.totalRecall, r[1].evaluation.recall),
                  totalF1 |-> RAdd(totals.totalF1, r[1].evaluation.f1_score),
                  totalIoU |-> RAdd(totals.totalIoU, r[1].evaluation.average_iou),
                  totalProcessingTime |->
                      totals.totalProcessingTime + r[1].evaluation.processing_time,
                  totalScore |-> totals.totalScore + r[2]]
    /\ bi' = bi + 1
    /\ UNCHANGED <<gtFile, groundTruthData, imageNames, overall, bpc>>
    /\ UNCHANGED <<MatchVars, ScoreVars, DetectVars, ModalVars>>

\* One iteration whose try block throws: the catch block records the image.
ProcessImageError ==
    /\ bpc = "loop" /\ bi < Len(imageNames)
    /\ TryImage(groundTruthData[1], imageNames[bi + 1]) = <<>>
    /\ testResults' = Append(testResults, ErrorResult(imageNames[bi + 1]))
    /\ bi' = bi + 1
    /\ UNCHANGED <<gtFile, groundTruthData, imageNames, totals, overall, bpc>>
    /\ UNCHANGED <<MatchVars, ScoreVars, DetectVars, ModalVars>>

\* After the loop: the OverallResults are returned.
FinishBatch ==
    /\ bpc = "loop" /\ bi = Len(imageNames)
    /\ overall' = <<Overall(testResults, totals)>>
    /\ bpc' = "done"
    /\ UNCHANGED <<gtFile, groundTruthData, imageNames, bi, testResults, totals>>
    /\ UNCHANGED <<MatchVars, ScoreVars, DetectVars, ModalVars>>

NextBatch ==
    \/ LoadGroundTruth
    \/ LoadGroundTruthFails
    \/ ProcessImage
    \/ ProcessImageError
    \/ FinishBatch

SpecBatch == InitBatch /\ [][NextBatch]_vars

---------------------------------------------------------------------------
(* detectShapes on one image *)

\* A filled square of side 50 that does not touch the border, on a contrasting
\* background that is the majority of the pixels.
SquarePictures ==
    { Picture(72, 72, White, <<Filled(10, 10, 50, 50, Black)>>),
      Picture(74, 70, Black, <<Filled(11, 5, 50, 50, White)>>),
      Picture(72, 72, White, <<Filled(1, 21, 50, 50, Red)>>) }

\* Buffers without a pixel.
EmptyPictures ==
    { Picture(0, 0, White, <<>>), Picture(0, 6, White, <<>>),
      Picture(6, 0, White, <<>>) }

\* One filled rectangle w x h at (x, y) on a 30 x 30 image, dark on light or
\* light on dark; a rectangle at x = 0 or y = 0 touches the border.
RectPictures ==
    { Picture(30, 30, c[1], <<Filled(o[1], o[2], d[1], d[2], c[2])>>) :
        c \in { <<White, Black>>, <<Black, White>> },
        o \in { <<0, 0>>, <<4, 3>> },
        d \in { <<12, 30>>, <<20, 16>>, <<25, 13>>, <<18, 18>>, <<26, 5>>, <<6, 6>> } }

\* Uniform images and images with several regions.
OtherPictures ==
    { Picture(8, 6, White, <<>>),
      Picture(8, 6, Black, <<>>),
      Picture(40, 30, White, <<Filled(2, 2, 18, 18, Black), Filled(22, 4, 7, 7, Black),
                               Filled(31, 20, 3, 3, Red)>>),
      Picture(40, 30, White, <<Filled(2, 2, 24, 24, Black), Filled(5, 5, 18, 18, White)>>),
      Picture(30, 30, White, <<Filled(0, 0, 15, 30, Black)>>),
      Picture(30, 30, White, <<Filled(2, 2, 10, 26, Black), Filled(2, 18, 26, 10, Black)>>),
      Picture(30, 30, Black, <<Filled(11, 2, 8, 26, White), Filled(2, 11, 26, 8, White)>>),
      Picture(40, 40, White, <<Filled(2, 2, 36, 10, Black), Filled(2, 2, 10, 36, Black),
                               Filled(28, 2, 10, 36, Black)>>),
      \* a band with two unequal bars across it
      Picture(40, 40, White, <<Filled(2, 18, 34, 8, Black), Filled(2, 5, 3, 30, Black),
                               Filled(19, 5, 6, 27, Black)>>),
      \* two squares that meet only at a corner, and a separate blob
      Picture(30, 30, White, <<Filled(2, 2, 10, 10, Black), Filled(12, 12, 10, 10, Black),
                               Filled(24, 2, 4, 4, Black)>>),
      \* a staircase of diagonal steps up to the border
      Picture(12, 12, Black, <<Filled(0, 0, 3, 3, White), Filled(3, 3, 3, 3, White),
                               Filled(6, 6, 3, 3, White), Filled(9, 9, 3, 3, White),
                               Filled(9, 0, 2, 2, White)>>) }

\* One filled disc of radius r, clear of the border, dark on light or light on
\* dark.
DiscRadii == { 10, 12, 15, 20 }
DiscPictures ==
    { Picture(2 * r + 12, 2 * r + 14, c[1], <<Disc(r + 5, r + 7, r, c[2])>>) :
        r \in DiscRadii, c \in { <<White, Black>>, <<Black, White>> } }

\* Images of one colour; a rectangle painted in the background colour leaves
\* the image uniform.
UniformPictures ==
    { Picture(d[1], d[2], c, <<>>) :
        d \in { <<1, 1>>, <<7, 5>>, <<20, 20>> },
        c \in { Black, White, Red, Grey(128) } }
        \cup { Picture(24, 24, White, <<Filled(2, 2, 20, 20, White)>>) }

\* Images of three gray levels, some of whose pixels sit exactly on the mean
\* (100): columns of 90, 100 and 140, or of 60, 100 and 110, or of 80, 100 and
\* 120 in equal numbers.
TonePictures ==
    { Picture(6, 4, Grey(90), <<Filled(4, 0, 1, 4, Grey(100)), Filled(5, 0, 1, 4, Grey(140))>>),
      Picture(6, 4, Grey(110), <<Filled(4, 0, 1, 4, Grey(100)), Filled(5, 0, 1, 4, Grey(60))>>),
      Picture(6, 4, Grey(100), <<Filled(0, 0, 2, 4, Grey(80)), Filled(4, 0, 2, 4, Grey(120))>>),
      Picture(6, 4, Grey(80), <<Filled(3, 0, 3, 4, Grey(120))>>) }

Pictures ==
    SquarePictures \cup EmptyPictures \cup RectPictures \cup OtherPictures
        \cup DiscPictures \cup UniformPictures \cup TonePictures

\* performance.now() - startTime, in milliseconds.
ElapsedTimes == { 0, 20, 2500 }

InitDetect ==
    /\ imageData \in Pictures
    /\ shapesAreLight = FALSE /\ binary = {} /\ visited = {} /\ scan = 0
    /\ regions = <<>> /\ shapes = <<>> /\ result = <<>> /\ dpc = "start"
    /\ MatchIdle /\ ScoreIdle /\ BatchIdle /\ ModalIdle

\* Steps 1 and 2: grayscale, mean, polarity, threshold.
Binarize ==
    /\ dpc = "start"
    /\ \E b \in {Binarized(imageData)} :
          /\ shapesAreLight' = b.shapesAreLight
          /\ binary' = b.binary
    /\ dpc' = "scan"
    /\ UNCHANGED <<imageData, visited, scan, regions, shapes, result>>
    /\ UNCHANGED <<MatchVars, ScoreVars, BatchVars, ModalVars>>

\* The scan (lines 93-96) reaches the next foreground pixel not yet visited,
\* and the region it belongs to is filled, measured, filtered and classified.
ScanRegion ==
    /\ dpc = "scan"
    /\ (binary \ visited) # {}
    /\ \E seed \in {SetMin(binary \ visited)} :
          \E r \in {RegionScanned(imageData, binary, visited, seed, shapes)} :
             /\ visited' = r.visited
             /\ regions' = Append(regions, r.region)
             /\ shapes' = r.shapes
             /\ scan' = seed + 1
    /\ UNCHANGED <<imageData, shapesAreLight, binary, result, dpc>>
    /\ UNCHANGED <<MatchVars, ScoreVars, BatchVars, ModalVars>>

\* The scan ends: the DetectionResult is returned.
ReturnResult ==
    /\ dpc = "scan"
    /\ (binary \ visited) = {}
    /\ \E ms \in ElapsedTimes :
          result' = <<[shapes |-> shapes, processingTime |-> ms,
                       imageWidth |-> imageData.width,
                       imageHeight |-> imageData.height]>>
    /\ scan' = imageData.width * imageData.height
    /\ dpc' = "done"
    /\ UNCHANGED <<imageData, shapesAreLight, binary, visited, regions, shapes>>
    /\ UNCHANGED <<MatchVars, ScoreVars, BatchVars, ModalVars>>

NextDetect == Binarize \/ ScanRegion \/ ReturnResult

SpecDetect == InitDetect /\ [][NextDetect]_vars

---------------------------------------------------------------------------
(* evaluation.ts: ModalManager.showEvaluationModal *)

MaxModals == 4
MaxFailed == 2

\* A modal just shown: its overlay is a child of document.body and its
\* handleEscape is a keydown listener of the document.  `failed` counts the
\* calls of document.body.removeChild(modalOverlay) made while the overlay is
\* not a child of the body; each throws a NotFoundError.
Shown == [attached |-> TRUE, escape |-> TRUE, failed |-> 0]

\* document.body.removeChild(modalOverlay) on an attached overlay.
Removed(m) == [m EXCEPT !.attached = FALSE]

\* handleEscape for one modal on an Escape keydown (lines 494-499): the
\* overlay is removed and then the listener; when removeChild throws, the
\* removeEventListener after it is not reached.
handleEscape(m) ==
    IF ~m.escape THEN m
    ELSE IF m.attached THEN [Removed(m) EXCEPT !.escape = FALSE]
    ELSE [m EXCEPT !.failed = m.failed + 1]

InitModal ==
    /\ modals = <<>>
    /\ MatchIdle /\ ScoreIdle /\ BatchIdle /\ DetectIdle

\* ModalManager.showEvaluationModal(results)
ShowEvaluationModal ==
    /\ Len(modals) < MaxModals
    /\ modals' = Append(modals, Shown)
    /\ UNCHANGED <<MatchVars, ScoreVars, BatchVars, DetectVars>>

\* A click on the close button of a modal on the page (lines 473-475).
ClickClose ==
    /\ \E i \in 1..Len(modals) :
          /\ modals[i].attached
          /\ modals' = [modals EXCEPT ![i] = Removed(modals[i])]
    /\ UNCHANGED <<MatchVars, ScoreVars, BatchVars, DetectVars>>

\* A click on the overlay itself, outside the content (lines 488-492).
ClickOverlay ==
    /\ \E i \in 1..Len(modals) :
          /\ modals[i].attached
          /\ modals' = [modals EXCEPT ![i] = Removed(modals[i])]
    /\ UNCHANGED <<MatchVars, ScoreVars, BatchVars, DetectVars>>

\* An Escape keydown: every registered handleEscape runs; an exception in one
\* listener does not keep the others from running.
PressEscape ==
    /\ \A i \in 1..Len(modals) : modals[i].failed < MaxFailed
    /\ \E i \in 1..Len(modals) : modals[i].escape
    /\ modals' = [i \in 1..Len(modals) |-> handleEscape(modals[i])]
    /\ UNCHANGED <<MatchVars, ScoreVars, BatchVars, DetectVars>>

NextModal == ShowEvaluationModal \/ ClickClose \/ ClickOverlay \/ PressEscape

SpecModal == InitModal /\ [][NextModal]_vars

---------------------------------------------------------------------------
(* Claims about evaluateDetection *)

Matches == { a \in 1..Len(assign) : assign[a] # 0 }

\* C1: no ground-truth index is matched to two detections and each detection
\* has at most one match, so the matching is a partial injective function and
\* the true positives never exceed min(|detected|, |groundTruth|).
C1_MatchingInjective ==
    /\ \A a, b \in Matches : a # b => assign[a] # assign[b]
    /\ \A a \in Matches : assign[a] \in 1..Len(groundTruth)
    /\ matched = { assign[a] : a \in Matches }
    /\ truePositives = Cardinality(Matches)
    /\ truePositives <= Min2(Len(detected), Len(groundTruth))

IoUOf(a, i) == calculateIoU(detected[a].boundingBox, groundTruth[i].bounding_box[1])

\* A later detection overlaps a ground-truth shape of its type by more than
\* 0.5 and does not get it, because an earlier detection took it.
C1_Witness ==
    /\ mpc = "done"
    /\ \E a, b \in 1..Len(assign) :
          /\ a < b /\ assign[a] # 0 /\ assign[b] = 0
          /\ detected[b].type = groundTruth[assign[a]].type
          /\ RLt(iouThreshold, IoUOf(b, assign[a]))

\* The ground-truth shapes still unmatched when detection a is processed that
\* have its type and overlap it by more than 0.5.
Candidates(a) ==
    { i \in 1..Len(groundTruth) :
        /\ \A b \in 1..(a - 1) : assign[b] # i
        /\ groundTruth[i].type = detected[a].type
        /\ groundTruth[i].bounding_box # <<>>
        /\ RLt(iouThreshold, IoUOf(a, i)) }

\* C3: detections are processed in list order; each one is matched to the
\* still unmatched ground-truth shape of the same type with the greatest IoU
\* above 0.5, the lowest index on equal IoU, and stays unmatched (consuming
\* nothing) when there is no such candidate.
C3_GreedyBestMatch ==
    /\ Len(assign) = di
    /\ \A a \in 1..Len(assign) :
          IF Candidates(a) = {} THEN assign[a] = 0
          ELSE /\ assign[a] \in Candidates(a)
               /\ \A j \in Candidates(a) :
                     /\ RLe(IoUOf(a, j), IoUOf(a, assign[a]))
                     /\ IoUOf(a, j) = IoUOf(a, assign[a]) => assign[a] <= j
    /\ matched = { assign[a] : a \in Matches }

\* A detection with two equally good candidates takes the lower index and the
\* next detection takes what is left.
C3_Witness ==
    /\ mpc = "done"
    /\ \E a \in 1..Len(assign) : \E j \in Candidates(a) :
          /\ j # assign[a] /\ IoUOf(a, j) = IoUOf(a, assign[a])
          /\ groundTruth[j] # groundTruth[assign[a]]
          /\ \E b \in (a + 1)..Len(assign) : assign[b] = j

\* C4: the number of true positives never grows when the IoU threshold does.
C4_ThresholdMonotone ==
    mpc = "swept" =>
        \A t1, t2 \in Thresholds :
            (RLe(t1, t2) /\ ~sweep[t1].threw /\ ~sweep[t2].threw)
                => sweep[t2].tp <= sweep[t1].tp

\* Raising the threshold loses a match, and at the lower threshold the greedy
\* order gives a detection another ground-truth shape than at the higher one.
C4_Witness ==
    /\ mpc = "swept"
    /\ sweep[<<3, 5>>].tp < sweep[<<1, 2>>].tp
    /\ sweep[<<3, 5>>].tp > 0
    /\ Len(detected) = 2

TP == Cardinality(Matches)

\* C5: precision = TP/|detected| (0 without detections), recall =
\* TP/|groundTruth| (1 without ground truth), F1 = 2*precision*recall /
\* (precision + recall) (0 when both are zero); one ground-truth circle and no
\* detection give 0, 0 and 0.
C5_PrecisionRecallF1 ==
    mpc = "done" =>
        LET m == metrics[1]
            p == m.precision
            r == m.recall
        IN  /\ p = (IF Len(detected) = 0 THEN Zero ELSE Rat(TP, Len(detected)))
            /\ r = (IF Len(groundTruth) = 0 THEN One ELSE Rat(TP, Len(groundTruth)))
            /\ (p = Zero /\ r = Zero) => m.f1_score = Zero
            /\ ~(p = Zero /\ r = Zero) =>
                   RMul(m.f1_score, RAdd(p, r)) = RMul(RInt(2), RMul(p, r))
            /\ (detected = <<>> /\ Len(groundTruth) = 1) =>
                   (p = Zero /\ r = Zero /\ m.f1_score = Zero)

\* One ground-truth circle and no detection.
C5_Witness ==
    /\ mpc = "done" /\ detected = <<>> /\ Len(groundTruth) = 1
    /\ groundTruth[1].type = "circle"
    /\ metrics[1].recall = Zero

---------------------------------------------------------------------------
(* Claims about calculateScore *)

\* The points the cut-offs give a value v that is better when higher.
PointsAtLeast(v, c1, p1, c2, p2, c3, p3) ==
    CASE RLe(c1, v) -> p1
      [] RLt(v, c1) /\ RLe(c2, v) -> p2
      [] RLt(v, c2) /\ RLe(c3, v) -> p3
      [] OTHER -> 0

\* The points the cut-offs give a value v that is better when lower.
PointsAtMost(v, c1, p1, c2, p2, c3, p3) ==
    CASE RLe(v, c1) -> p1
      [] RLt(c1, v) /\ RLe(v, c2) -> p2
      [] RLt(c2, v) /\ RLe(v, c3) -> p3
      [] OTHER -> 0

\* C7: the score is the sum of the five band values (F1 40/30/20/0 at
\* 0.9/0.7/0.5; averageIoU 25/20/10/0 at 0.8/0.6/0.4; centerPointAccuracy
\* 15/12/8/0 at 5/10/20, lower being better; areaAccuracy 10/8/5/0 at
\* 0.9/0.8/0.7; processingTime 10/8/5/0 at 500/1000/2000), so it lies between 0
\* and 100, and passed is true exactly when the score is at least 60.
C7_ScoreBands ==
    spc = "returned" =>
        LET ev == evaluation[1]
            out == scored[1]
        IN  /\ out.score =
                  PointsAtLeast(ev.f1_score, <<9, 10>>, 40, <<7, 10>>, 30, <<1, 2>>, 20)
                  + PointsAtLeast(ev.average_iou, <<4, 5>>, 25, <<3, 5>>, 20, <<2, 5>>, 10)
                  + PointsAtMost(ev.center_point_accuracy, RInt(5), 15, RInt(10), 12,
                                 RInt(20), 8)
                  + PointsAtLeast(ev.area_accuracy, <<9, 10>>, 10, <<4, 5>>, 8,
                                  <<7, 10>>, 5)
                  + PointsAtMost(RInt(processingTime), RInt(500), 10, RInt(1000), 8,
                                 RInt(2000), 5)
            /\ out.score \in 0..100
            /\ out.passed <=> out.score >= 60

\* A score of exactly 60 passes, with the centre error exactly on a cut-off.
C7_Witness ==
    /\ spc = "returned" /\ scored[1].score = 60 /\ scored[1].passed
    /\ evaluation[1].center_point_accuracy = RInt(5)

---------------------------------------------------------------------------
(* Claims about a batch evaluation *)

\* The image has exactly one detection and exactly one ground-truth shape, of
\* the same type and with the same bounding box of positive area.
IdenticalSingle(name) ==
    LET w == World(name)
    IN  /\ w.readable /\ Len(w.shapes) = 1
        /\ w.gt # <<>> /\ Len(w.gt[1]) = 1
        /\ w.gt[1][1].bounding_box = <<w.shapes[1].boundingBox>>
        /\ w.gt[1][1].type = w.shapes[1].type
        /\ w.shapes[1].boundingBox.width * w.shapes[1].boundingBox.height > 0

AllOnes(ev) ==
    /\ ev.precision = One /\ ev.recall = One /\ ev.f1_score = One
    /\ ev.average_iou = One

\* The ground truth agrees with the detection on centre (within 5 px) and area
\* (within 10 %) where it states them, and detection took at most 500 ms.
CloseAndFast(name) ==
    LET d == World(name).shapes[1]
        g == World(name).gt[1][1]
    IN  /\ g.center = <<>> \/
             (g.center[1].x - d.center.x) * (g.center[1].x - d.center.x)
             + (g.center[1].y - d.center.y) * (g.center[1].y - d.center.y) <= 25
        /\ g.area = 0 \/ 10 * Abs(d.area - g.area) <= g.area
        /\ World(name).ms <= 500

\* C6 as stated: one detection and one ground-truth shape of the same type with
\* identical boxes of positive area give precision = recall = F1 = averageIoU =
\* 1, score 100 with passed = true, and grade "A" for the batch of that image.
C6_Original ==
    (bpc = "done" /\ gtFile = "ok" /\ Len(imageNames) = 1
     /\ IdenticalSingle(imageNames[1])) =>
        /\ AllOnes(testResults[1].evaluation)
        /\ testResults[1].passed
        /\ overall[1].totalScore = 100
        /\ overall[1].grade = "A"

\* C6, amended: such an image has precision = recall = F1 = averageIoU = 1 and
\* passes with a score of at least 65; the score is 100, and the batch of that
\* image alone has grade "A", when also the centres are within 5 px, the areas
\* within 10 % and the processing time is at most 500 ms.
C6_IdenticalShapePasses ==
    /\ (gtFile = "ok" /\ bpc \in {"loop", "done"}) =>
          \A i \in 1..Len(testResults) :
              IdenticalSingle(imageNames[i]) =>
                  /\ AllOnes(testResults[i].evaluation)
                  /\ testResults[i].passed
    /\ (bpc = "done" /\ gtFile = "ok" /\ Len(imageNames) = 1
        /\ IdenticalSingle(imageNames[1])) =>
          /\ overall[1].totalScore >= 65
          /\ overall[1].maxScore = 100
          /\ CloseAndFast(imageNames[1]) =>
                (overall[1].totalScore = 100 /\ overall[1].grade = "A")

\* The batch of one perfectly detected image: score 100, grade "A".
C6_Witness ==
    /\ bpc = "done" /\ gtFile = "ok" /\ Len(imageNames) = 1
    /\ IdenticalSingle(imageNames[1]) /\ CloseAndFast(imageNames[1])
    /\ overall[1].totalScore = 100 /\ overall[1].grade = "A"

\* Processing the image raises an exception: its source cannot be read, the
\* ground-truth data has no `images` table, or evaluateDetection compares a
\* detection with a ground-truth shape of its type that has no bounding box.
Raises(name) ==
    LET w == World(name)
    IN  \/ ~w.readable
        \/ groundTruthData = <<"no_images">>
        \/ /\ w.gt # <<>>
           /\ \E a \in 1..Len(w.shapes), i \in 1..Len(w.gt[1]) :
                 /\ w.gt[1][i].type = w.shapes[a].type
                 /\ w.gt[1][i].bounding_box = <<>>

IsErrorResult(r) ==
    /\ r.evaluation = ZeroMetrics /\ ~r.passed
    /\ r.feedback = <<"Error during testing">>

\* C8 as stated: an image whose ground truth is missing or whose source is
\* unreadable is recorded with all metrics zero, passed = false and a feedback
\* message, and the batch returns one TestResult per image in batch order.
C8_Original ==
    (bpc = "done" /\ gtFile = "ok") =>
        /\ Len(testResults) = Len(imageNames)
        /\ \A i \in 1..Len(testResults) :
              /\ testResults[i].imageName = imageNames[i]
              /\ (~World(imageNames[i]).readable \/ World(imageNames[i]).gt = <<>>)
                    => IsErrorResult(testResults[i])

\* C8, amended: an exception raised while one image is processed is isolated
\* to that image, which is recorded with all metrics zero, passed = false and
\* one feedback message; an image without a ground-truth entry is no failure
\* and is evaluated against an empty list (precision 0, recall 1, not passed);
\* every image is processed and the batch returns one TestResult per image in
\* batch order.  The batch throws only when ground_truth.json cannot be loaded.
C8_FailureIsolated ==
    /\ bpc = "threw" => (gtFile = "unavailable" /\ testResults = <<>>)
    /\ bpc \in {"loop", "done"} =>
          /\ gtFile # "unavailable"
          /\ Len(testResults) = bi
          /\ \A i \in 1..bi :
                /\ testResults[i].imageName = imageNames[i]
                /\ Raises(imageNames[i]) => IsErrorResult(testResults[i])
                /\ (~Raises(imageNames[i]) /\ World(imageNames[i]).gt = <<>>) =>
                      /\ testResults[i].evaluation.recall = One
                      /\ testResults[i].evaluation.precision = Zero
                      /\ ~testResults[i].passed
                      /\ Len(testResults[i].feedback) = 5
    /\ (bpc = "loop" /\ bi < Len(imageNames)) =>
          (Raises(imageNames[bi + 1])
             <=> TryImage(groundTruthData[1], imageNames[bi + 1]) = <<>>)
    /\ bpc = "done" =>
          /\ bi = Len(imageNames)
          /\ overall[1].testResults = testResults
          /\ overall[1].maxScore = 100 * Len(imageNames)

\* An unreadable image, then an image without ground truth, then an image
\* that passes: three results.
C8_Witness ==
    /\ bpc = "done" /\ Len(testResults) = 3
    /\ ~World(imageNames[1]).readable /\ IsErrorResult(testResults[1])
    /\ World(imageNames[2]).readable /\ World(imageNames[2]).gt = <<>>
    /\ testResults[3].passed


---------------------------------------------------------------------------
(* Claims about detectShapes *)

Returned == dpc = "done" /\ result # <<>>

ZeroArea(img) == img.width = 0 \/ img.height = 0

\* C2: every DetectedShape returned by detectShapes, for every input image,
\* has area >= 300 and a confidence between 0 and 1 inclusive; this includes
\* circles, whose confidence is the circularity, and regions that touch the
\* image border.
C2_AreaAndConfidenceInRange ==
    Returned =>
        \A k \in 1..Len(result[1].shapes) :
            /\ result[1].shapes[k].area >= 300
            /\ RLe(Zero, result[1].shapes[k].confidence)
            /\ RLe(result[1].shapes[k].confidence, One)

\* C9: given a pixel buffer of zero width or zero height detectShapes signals an
\* input error and returns no result, the pipeline not having run; given a
\* buffer of positive area it returns a DetectionResult.
C9_ZeroAreaIsInputError ==
    /\ ZeroArea(imageData) => (dpc \in {"start", "idle"} /\ result = <<>>)
    /\ (dpc = "done" /\ ~ZeroArea(imageData)) => result # <<>>

\* C10: for an image with one filled axis-aligned square of side 50 that does
\* not touch the border, on a uniform contrasting background that is the
\* majority of the pixels, detectShapes returns exactly one DetectedShape, of
\* type rectangle and of area 2500.
C10_SquareIsRectangle ==
    (Returned /\ imageData \in SquarePictures) =>
        /\ Len(result[1].shapes) = 1
        /\ result[1].shapes[1].type = "rectangle"
        /\ result[1].shapes[1].area = 2500

\* C11: for an image with one filled digital disc of radius R (area >= 300,
\* clear of the border) on a uniform contrasting background, the circularity
\* that detectShapes computes from the pixel area and the boundary-pixel count
\* is at least 0.75 and the shape is classified as circle.
C11_DiscIsCircle ==
    (Returned /\ imageData \in DiscPictures) =>
        /\ Len(regions) = 1
        /\ regions[1].measured # <<>>
        /\ RLe(<<3, 4>>, regions[1].measured[1].circularity)
        /\ Len(result[1].shapes) = 1
        /\ result[1].shapes[1].type = "circle"

Uniform(img) == \A i \in Pixels(img) : ColourAt(img, i) = ColourAt(img, 0)

\* C12: for every image of positive size whose pixels all have the same
\* colour, the mask of detectShapes has no foreground pixel, no region is
\* found, and the call returns a DetectionResult with an empty shape list.
C12_UniformImageIsEmpty ==
    (dpc \in {"scan", "done"} /\ ~ZeroArea(imageData) /\ Uniform(imageData)) =>
        /\ binary = {}
        /\ regions = <<>>
        /\ shapes = <<>>
        /\ dpc = "done" => (result # <<>> /\ result[1].shapes = <<>>)

C12_Witness ==
    /\ Returned
    /\ imageData.width * imageData.height >= 300
    /\ Uniform(imageData)
    /\ imageData.bg = Red
    /\ result[1].shapes = <<>>

---------------------------------------------------------------------------
(* Claims about the regions *)

RegionSet(k) == { regions[k].pixels[i] : i \in 1..Len(regions[k].pixels) }

\* The pixels of the image that are 8-adjacent to pixel p.
Around(img, p) ==
    { ny * img.width + nx :
        nx \in { x \in ((p % img.width) - 1)..((p % img.width) + 1) :
                    x >= 0 /\ x < img.width },
        ny \in { y \in ((p \div img.width) - 1)..((p \div img.width) + 1) :
                    y >= 0 /\ y < img.height } } \ {p}

\* The foreground pixels joined to the pixels of `reached` by a path of
\* 8-adjacent foreground pixels; `frontier` are the ones reached last.
RECURSIVE Joined(_, _, _, _)
Joined(img, bin, reached, frontier) ==
    IF frontier = {} THEN reached
    ELSE LET next == (UNION { Around(img, p) : p \in frontier } \cap bin) \ reached
         IN  Joined(img, bin, reached \cup next, next)

Component(img, bin, p) == Joined(img, bin, {p}, {p})

\* C13: during segmentation every foreground pixel marked visited is placed in
\* exactly one region and exactly once, and when the scan is over every
\* foreground pixel has been; no background pixel is in a region; each region
\* is a maximal 8-connected component of the foreground, that is the set of
\* the foreground pixels joined to its seed by a path of 8-adjacent
\* foreground pixels.
C13_RegionsAreComponents ==
    dpc \in {"scan", "done"} =>
        /\ \A k \in 1..Len(regions) :
              /\ Len(regions[k].pixels) >= 1
              /\ Cardinality(RegionSet(k)) = Len(regions[k].pixels)
              /\ RegionSet(k) \subseteq binary
              /\ RegionSet(k) = Component(imageData, binary, regions[k].pixels[1])
              /\ \A j \in 1..Len(regions) : j # k => RegionSet(j) \cap RegionSet(k) = {}
        /\ visited = UNION { RegionSet(k) : k \in 1..Len(regions) }
        /\ dpc = "done" => visited = binary

\* Two regions have been found, one of them holding two pixels that touch
\* only at a corner.
C13_Witness ==
    /\ dpc = "done"
    /\ Len(regions) >= 2
    /\ \E k \in 1..Len(regions) : \E p \in RegionSet(k) :
          /\ (p % imageData.width) + 1 < imageData.width
          /\ p + imageData.width + 1 \in RegionSet(k)
          /\ p + 1 \notin binary
          /\ p + imageData.width \notin binary

\* The pixels of region k with one of their 8 neighbours outside the region or
\* outside the image.
BoundaryPixels(k) ==
    { p \in RegionSet(k) :
        \/ ~(Around(imageData, p) \subseteq RegionSet(k))
        \/ Cardinality(Around(imageData, p)) < 8 }

\* C14: for every measured region the perimeter computed by detectShapes is the
\* number of its pixels that have at least one of their 8 neighbours outside
\* the region or outside the image bounds; a region pixel on the image border
\* counts as a boundary pixel.
C14_PerimeterCountsBoundary ==
    \A k \in 1..Len(regions) :
        regions[k].measured # <<>> =>
            regions[k].measured[1].perimeter = Cardinality(BoundaryPixels(k))

\* C15: for every measured region the bounding box of detectShapes is the
\* tight axis-aligned box over its pixels: it starts at (minX, minY), its
\* width and height cover every column and row the region occupies, so the
\* pixel count never exceeds boundingBox.width * boundingBox.height, and
\* center is the midpoint of that box.
C15_BoundingBoxIsTight ==
    \A k \in 1..Len(regions) :
        regions[k].measured # <<>> =>
            LET f == regions[k].measured[1]
                xs == { p % imageData.width : p \in RegionSet(k) }
                ys == { p \div imageData.width : p \in RegionSet(k) }
            IN  /\ f.bbox.x = SetMin(xs)
                /\ f.bbox.y = SetMin(ys)
                /\ \A x \in xs : f.bbox.x <= x /\ x < f.bbox.x + f.bbox.width
                /\ \A y \in ys : f.bbox.y <= y /\ y < f.bbox.y + f.bbox.height
                /\ f.area <= f.bbox.width * f.bbox.height
                /\ f.center.x = Rat(2 * f.bbox.x + f.bbox.width, 2)
                /\ f.center.y = Rat(2 * f.bbox.y + f.bbox.height, 2)

---------------------------------------------------------------------------
(* Claims about the mask *)

\* The pixels below the mean, and those at or above it.
DarkClass ==
    LET gray == [i \in Pixels(imageData) |-> Gray(ColourAt(imageData, i))]
        n == imageData.width * imageData.height
        sum == SumLevels(gray, { gray[i] : i \in Pixels(imageData) })
    IN  { i \in Pixels(imageData) : gray[i] * n < sum }
LightClass == Pixels(imageData) \ DarkClass

\* C16: the binarization treats the minority luminance class as foreground:
\* when the pixels at or above the mean are fewer than the pixels below it,
\* exactly the light pixels are foreground, otherwise exactly the dark pixels
\* are; so the foreground pixels never outnumber the background pixels.
C16_MinorityIsForeground ==
    dpc \in {"scan", "done"} =>
        \E dark \in {DarkClass} : \E light \in {Pixels(imageData) \ dark} :
            /\ Cardinality(light) < Cardinality(dark) => binary = light
            /\ Cardinality(light) >= Cardinality(dark) => binary = dark
            /\ 2 * Cardinality(binary) <= Cardinality(Pixels(imageData))

---------------------------------------------------------------------------
(* Claims about the classification *)

\* The measured regions that pass the noise gate, in the order found.
Reported ==
    SelectSeq(regions, LAMBDA g : g.measured # <<>> /\ ~Rejected(g.measured[1]))

Labelled(sh, type, confidence) == sh.type = type /\ sh.confidence = confidence

\* C17: every region that passes the noise gate is reported with the type and
\* confidence of the first matching rule in the order: circularity > 0.75,
\* circle with confidence = circularity; else cornerCount <= 4, triangle 0.9;
\* else cornerCount <= 6, pentagon 0.85; else width / height < 1.2 and
\* circularity < 0.4, star 0.8; otherwise rectangle 0.8.  No reported shape has
\* the initial confidence 0.5.
C17_FirstMatchingRule ==
    /\ Len(shapes) = Len(Reported)
    /\ \A k \in 1..Len(shapes) :
          \E f \in {Reported[k].measured[1]} : \E sh \in {shapes[k]} :
             /\ sh.area = f.area /\ sh.boundingBox = f.bbox
             /\ RLt(<<3, 4>>, f.circularity) => Labelled(sh, "circle", f.circularity)
             /\ (~RLt(<<3, 4>>, f.circularity) /\ f.corners <= 4) =>
                    Labelled(sh, "triangle", <<9, 10>>)
             /\ (~RLt(<<3, 4>>, f.circularity) /\ f.corners \in 5..6) =>
                    Labelled(sh, "pentagon", <<17, 20>>)
             /\ (~RLt(<<3, 4>>, f.circularity) /\ f.corners > 6) =>
                    IF 5 * f.bbox.width < 6 * f.bbox.height /\ RLt(f.circularity, <<2, 5>>)
                    THEN Labelled(sh, "star", <<4, 5>>)
                    ELSE Labelled(sh, "rectangle", <<4, 5>>)
             /\ sh.confidence # <<1, 2>>

\* A region that is both round enough for `circle` and has few enough corners
\* for `triangle` has been reported, as a circle.
C17_Witness ==
    /\ dpc = "done"
    /\ \E k \in 1..Len(shapes) :
          /\ RLt(<<3, 4>>, Reported[k].measured[1].circularity)
          /\ Reported[k].measured[1].corners <= 4
          /\ shapes[k].type = "circle"

---------------------------------------------------------------------------
(* Claims about images without a true positive *)

\* The k-th image of the batch was evaluated (its try block completed) and the
\* matcher found no true positive for it.
NoTruePositive(k) ==
    /\ ~Raises(imageNames[k])
    /\ TruePositivesAt(World(imageNames[k]).shapes,
                       GtShapes(groundTruthData[1], imageNames[k])[1],
                       iouThreshold) = 0

\* 15 centre points plus the time points of the evaluated images among the
\* first n.
RECURSIVE CentreAndTimePoints(_)
CentreAndTimePoints(n) ==
    IF n = 0 THEN 0
    ELSE CentreAndTimePoints(n - 1)
         + (IF Raises(imageNames[n]) THEN 0
            ELSE 15 + TimePoints(World(imageNames[n]).ms))

\* C18: whenever evaluateDetection finds no true positive for an image (also
\* with no detection and no ground truth, where recall is 1), F1, averageIoU,
\* centerPointAccuracy and areaAccuracy are 0 and the image does not pass;
\* calculateScore gives it exactly the 15 centre points plus the time points,
\* at most 25: a batch whose evaluated images all lack a true positive has
\* that sum as its total score.
C18_NoTruePositiveNeverPasses ==
    bpc \in {"loop", "done"} =>
        /\ \A k \in 1..Len(testResults) :
              NoTruePositive(k) =>
                  /\ testResults[k].evaluation.f1_score = Zero
                  /\ testResults[k].evaluation.average_iou = Zero
                  /\ testResults[k].evaluation.center_point_accuracy = Zero
                  /\ testResults[k].evaluation.area_accuracy = Zero
                  /\ ~testResults[k].passed
        /\ (\A k \in 1..Len(testResults) : Raises(imageNames[k]) \/ NoTruePositive(k)) =>
              /\ totals.totalScore = CentreAndTimePoints(Len(testResults))
              /\ totals.totalScore <= 25 * Len(testResults)

\* A batch of three evaluated images without a true positive, the all-negative
\* image among them, has been scored.
C18_Witness ==
    /\ bpc = "done" /\ Len(testResults) = 3
    /\ \A k \in 1..3 : NoTruePositive(k)
    /\ \E k \in 1..3 : imageNames[k] = "negative.png" /\ testResults[k].evaluation.recall = One
    /\ \E k \in 1..3 : World(imageNames[k]).ms > 500
    /\ totals.totalScore > 45

---------------------------------------------------------------------------
(* Claims about the modal *)

\* C19: for a modal opened by showEvaluationModal, under any sequence of
\* close-button clicks, overlay clicks and Escape presses, the overlay is
\* removed from document.body only while it is attached: once the modal is
\* closed, a later Escape press or other close event never tries to remove
\* the already removed overlay again.
C19_RemovalOnlyWhileAttached ==
    [][\A i \in 1..Len(modals) : modals'[i].failed = modals[i].failed]_vars

====
